---- MODULE Spec2Model ----
(***************************************************************************)
(* FX Alert PWA: the push-registration page script (two revisions,         *)
(* src/unnamed/part_000 and src/unnamed/part_001) and the installability   *)
(* service worker (src/docs/sw.js).                                        *)
(*                                                                         *)
(* Strings whose characters matter (push tokens, the token preview) are    *)
(* sequences of one-character strings.  The browser, the Firebase SDK and  *)
(* the network are the environment: every awaited call settles with one of *)
(* the outcomes its API allows.                                            *)
(***************************************************************************)
EXTENDS Integers, Sequences, FiniteSets, TLC

\* ------------------------------------------------------------------ bounds
MaxClicks == 2
MaxTokenLen == 24
MaxFetch == 2
MaxClients == 2

\* ------------------------------------------------------- program constants
PreviewHead == 12
PreviewTail == 8

\* ------------------------------------------------------------------ strings
Min(a, b) == IF a < b THEN a ELSE b
Max(a, b) == IF a > b THEN a ELSE b

Alphabet ==
    << "a", "b", "c", "d", "e", "f", "g", "h", "i", "j", "k", "l", "m",
       "n", "o", "p", "q", "r", "s", "t", "u", "v", "w", "x", "y", "z" >>

\* the i-th letter, cycling through the alphabet
Letter(i) == Alphabet[((i - 1) % Len(Alphabet)) + 1]

\* the token of length n starting at letter number a
MkToken(a, n) == [i \in 1..n |-> Letter(a + i - 1)]

Dots == << ".", ".", "." >>
Dash == << "-" >>

\* slice taking the character at the end index too
JsSliceInclusiveEnd(s, b, e) ==
    LET n == Len(s)
        from == IF b < 0 THEN Max(n + b, 0) ELSE Min(b, n)
        to == IF e < 0 THEN Max(n + e, 0) ELSE Min(e + 1, n)
    IN  IF from >= to THEN << >> ELSE SubSeq(s, from + 1, to)

\* String.prototype.slice(b, e): negative indexes count from the end, both
\* are clamped to the string, an empty range gives "".
JsSlice(s, b, e) ==
    LET n == Len(s)
        from == IF b < 0 THEN Max(n + b, 0) ELSE Min(b, n)
        to == IF e < 0 THEN Max(n + e, 0) ELSE Min(e, n)
    IN  IF from >= to THEN << >> ELSE SubSeq(s, from + 1, to)

\* slice with the end omitted: to the end of the string
JsSliceFrom(s, b) == JsSlice(s, b, Len(s))

\* token.slice(0, 12) + "..." + token.slice(-8)
PreviewText(token) ==
    JsSlice(token, 0, PreviewHead) \o Dots \o JsSliceFrom(token, 0 - PreviewTail)

\* ------------------------------------------------------------ environment
Scripts == {"part_000", "part_001"}

\* window.firebase: not loaded; loaded and rejecting a second default app
\* (namespaced SDK); loaded and returning the existing app when
\* initializeApp is repeated with the same options (compat SDK)
Sdks == {"none", "strict", "lenient"}

Permissions == {"granted", "denied", "default"}

Invs == 1..MaxClicks

\* what new Date().toISOString() may read when set() is called
Times == {"2025-01-01T00:00:00.000Z", "2025-01-02T00:00:00.000Z"}

\* the tokens the push provider may issue
TokenA == MkToken(1, MaxTokenLen)
TokenB == MkToken(3, 5)
Tokens == {TokenA, TokenB}
NoToken == << >>

\* the document ids of the subscribers collection
DocIds == Tokens \cup {NoToken}

\* what messaging.getToken may resolve to: a token, "" or null/undefined
TokenResults ==
    {[got |-> TRUE, absent |-> FALSE, str |-> t] : t \in Tokens \cup {NoToken}}
        \cup {[got |-> TRUE, absent |-> TRUE, str |-> NoToken]}

\* registerPush's local token before getToken has resolved
NotYet == [got |-> FALSE, absent |-> TRUE, str |-> NoToken]

UserAgent == "ua-now"
OldUserAgent == "ua-old"

\* ------------------------------------------------------------------- state
VARIABLES
    page,         \* the page: script revision, SDK, capabilities, elements
    loaded,       \* "loading", "ready" (click listener attached), "broken"
    appInit,      \* the Firebase default app exists
    permState,    \* the browser's stored notification permission
    nClicks,      \* invocations of registerPush started so far
    pc,           \* per invocation: where registerPush is suspended
    retry,        \* per invocation: every earlier one had ended at its click
    perm,         \* per invocation: what requestPermission resolved to
    tok,          \* per invocation: what getToken resolved to
    last,         \* per invocation: the last status it passed to setStatus
    outcome,      \* per invocation: how its promise settled
    failedAt,     \* per invocation: the step that failed, or "none"
    nGetToken,    \* per invocation: calls of messaging.getToken
    nSet,         \* per invocation: calls of doc(token).set
    wrotePreview, \* per invocation: it wrote the token-preview element
    statusText,   \* the status element's text and colour
    previewText,  \* the token-preview element's text
    db,           \* the subscribers collection: document id -> document
    swState,      \* the worker's lifecycle state
    skipWaitingFlag, \* the worker's skip-waiting flag
    claim,        \* clients.claim(): "none", "pending", "done"
    oldWorker,    \* the previous version: "none", "active" or "redundant"
    controller,   \* per client page: "closed", or who controls it
    fetchEv,      \* per fetch event: its state, request, network call, response
    netCalls,     \* network calls issued so far
    pvToken,      \* preview rendering: the token given
    pvText,       \* preview rendering: the text rendered
    pvBy          \* preview rendering: "none" or the code that rendered

pageVars ==
    << page, loaded, appInit, permState, nClicks, pc, retry, perm, tok, last,
       outcome, failedAt, nGetToken, nSet, wrotePreview, statusText, previewText, db >>

swVars ==
    << swState, skipWaitingFlag, claim, oldWorker, controller, fetchEv,
       netCalls >>

pvVars == << pvToken, pvText, pvBy >>

vars == << pageVars, swVars, pvVars >>

\* ------------------------------------------------------------ status text
Status(kind, detail, ok) == [kind |-> kind, detail |-> detail, ok |-> ok]
NoStatus == Status("blank", "", TRUE)

InProgress(kind) == Status(kind, "", TRUE)

\* the saving message left in place
CompletedStatusStale == InProgress("saving")

CompletedStatus == Status("completed", "", TRUE)
DeniedStatus == Status("denied", "", FALSE)
TokenFailedStatus == Status("token_failed", "", FALSE)
ErrorStatus(message) == Status("error", message, FALSE)

TerminalKinds == {"completed", "denied", "token_failed", "error"}

\* setStatus(msg, ok): a no-op when the status element is absent
setStatus(st) == IF page.hasStatus THEN st ELSE statusText

\* token ? (token.slice(0, 12) + "..." + token.slice(-8)) : "-"
TokenPreviewOf(token) ==
    IF token # NoToken THEN PreviewText(token) ELSE Dash

\* setTokenPreview(token) of part_000: a no-op when the element is absent
setTokenPreview(token) ==
    IF page.hasPreview THEN TokenPreviewOf(token) ELSE previewText

\* the inline preview write of part_001
writePreview(token) ==
    IF page.hasPreview THEN PreviewText(token) ELSE previewText

\* ----------------------------------------------------------- remote store
NoDoc ==
    [exists |-> FALSE, token |-> NoToken, ua |-> "", createdAt |-> "",
     extra |-> ""]

\* a record an earlier session of this page wrote, with a field the
\* server side added since
OldDoc(t) ==
    [exists |-> TRUE, token |-> t, ua |-> OldUserAgent,
     createdAt |-> "2024-06-01T00:00:00.000Z",
     extra |-> "srv"]

\* set() without {merge: true}: the document is replaced
MergeSetOverwrites(store, id, token, now) ==
    [store EXCEPT ![id] =
        [exists |-> TRUE, token |-> token, ua |-> UserAgent,
         createdAt |-> now, extra |-> ""]]

\* doc(id).set({token, ua, createdAt}, {merge: true}): the named fields are
\* written, every other field of an existing document is kept
MergeSet(store, id, token, now) ==
    [store EXCEPT ![id] =
        [exists |-> TRUE, token |-> token, ua |-> UserAgent,
         createdAt |-> now,
         extra |-> IF store[id].exists THEN store[id].extra ELSE ""]]

\* the document id registerPush writes under: doc(token)
DocId(token) == token

\* ------------------------------------------------------------- predicates
\* only "denied" returns early
PermGrantedUnlessDenied(p) == p # "denied"

\* perm !== "granted" is the early return
PermGranted(p) == p = "granted"

\* token == null
FalsyOnlyAbsent(r) == r.absent

\* !token
Falsy(r) == r.absent \/ r.str = NoToken

\* -------------------------------------------------------------- page load
PageInit ==
    /\ page \in [script : Scripts, sdk : Sdks, services : BOOLEAN,
                 sw : BOOLEAN, hasStatus : BOOLEAN, hasPreview : BOOLEAN]
    /\ loaded = "loading"
    /\ appInit = FALSE
    /\ permState \in Permissions
    /\ nClicks = 0
    /\ pc = [i \in Invs |-> "idle"]
    /\ retry = [i \in Invs |-> FALSE]
    /\ perm = [i \in Invs |-> "none"]
    /\ tok = [i \in Invs |-> NotYet]
    /\ last = [i \in Invs |-> NoStatus]
    /\ outcome = [i \in Invs |-> "none"]
    /\ failedAt = [i \in Invs |-> "none"]
    /\ nGetToken = [i \in Invs |-> 0]
    /\ nSet = [i \in Invs |-> 0]
    /\ wrotePreview = [i \in Invs |-> FALSE]
    /\ statusText = NoStatus
    /\ previewText = Dash
    /\ db \in {[t \in DocIds |-> IF t \in S THEN OldDoc(t) ELSE NoDoc] :
                S \in SUBSET Tokens}

\* The script's top level runs, then DOMContentLoaded attaches registerPush
\* to the button.  part_001 initializes Firebase here, outside any try: a
\* missing or failing SDK aborts the script and no listener is attached.
LoadScript ==
    /\ loaded = "loading"
    /\ \/ /\ page.script = "part_000"
          /\ loaded' = "ready"
          /\ UNCHANGED appInit
       \/ /\ page.script = "part_001"
          /\ page.sdk = "none"
          /\ loaded' = "broken"
          /\ UNCHANGED appInit
       \/ /\ page.script = "part_001"
          /\ page.sdk # "none"
          /\ appInit' = TRUE
          /\ loaded' = IF page.services THEN "ready" ELSE "broken"
    /\ UNCHANGED << page, permState, nClicks, pc, retry, perm, tok, last, outcome,
                    failedAt, nGetToken, nSet, wrotePreview, statusText,
                    previewText, db >>
    /\ UNCHANGED << swVars, pvVars >>

\* --------------------------------------------------- registerPush: pieces
\* registerPush suspends at an await after writing the status st
Suspend(i, at, st) ==
    /\ pc' = [pc EXCEPT ![i] = at]
    /\ last' = [last EXCEPT ![i] = st]
    /\ statusText' = setStatus(st)
    /\ UNCHANGED << outcome, failedAt >>

\* registerPush returns after writing the status st
Return(i, st, result, step) ==
    /\ pc' = [pc EXCEPT ![i] = "done"]
    /\ last' = [last EXCEPT ![i] = st]
    /\ statusText' = setStatus(st)
    /\ outcome' = [outcome EXCEPT ![i] = result]
    /\ failedAt' = [failedAt EXCEPT ![i] = step]

\* no catch: the exception leaves registerPush and its promise rejects
CatchRethrows(i, message, step) ==
    /\ pc' = [pc EXCEPT ![i] = "done"]
    /\ outcome' = [outcome EXCEPT ![i] = "rejected"]
    /\ failedAt' = [failedAt EXCEPT ![i] = step]
    /\ UNCHANGED << last, statusText >>

\* catch (e) { console.error(e); setStatus("error: " + e.message, false) }
Catch(i, message, step) ==
    Return(i, ErrorStatus(message), "failed", step)

\* ------------------------------------------------------ registerPush: run
\* part_000, from the click to the first await
Click000(i) ==
    /\ page.script = "part_000"
    /\ UNCHANGED << permState, perm, tok, nGetToken, nSet, wrotePreview,
                    previewText, db >>
    /\ \/ /\ page.sdk = "none"
          /\ Catch(i, "firebase SDK not loaded", "sdk")
          /\ UNCHANGED appInit
       \/ /\ page.sdk = "strict"
          /\ appInit
          /\ Catch(i, "duplicate-app", "init")
          /\ UNCHANGED appInit
       \/ /\ page.sdk # "none"
          /\ ~(page.sdk = "strict" /\ appInit)
          /\ appInit' = TRUE
          /\ \/ /\ ~page.services
                /\ Catch(i, "init-error", "init")
             \/ /\ page.services
                /\ ~page.sw
                /\ Catch(i, "ServiceWorker not supported", "sw")
             \/ /\ page.services
                /\ page.sw
                /\ Suspend(i, "await_ready", InProgress("sw_wait"))

\* part_001, from the click to the first await
Click001(i) ==
    /\ page.script = "part_001"
    /\ UNCHANGED << appInit, permState, perm, tok, nGetToken, nSet,
                    wrotePreview, previewText, db >>
    /\ \/ /\ ~page.sw
          /\ Catch(i, "Service Worker not supported", "sw")
       \/ /\ page.sw
          /\ Suspend(i, "await_ready", InProgress("sw_register"))

\* the button is clicked: the click listener calls registerPush
Click ==
    /\ loaded = "ready"
    /\ nClicks < MaxClicks
    /\ nClicks' = nClicks + 1
    /\ retry' = [retry EXCEPT ![nClicks + 1] =
                   nClicks > 0 /\ \A j \in 1..nClicks : pc[j] = "done"]
    /\ UNCHANGED << page, loaded >>
    /\ UNCHANGED << swVars, pvVars >>
    /\ \/ Click000(nClicks + 1)
       \/ Click001(nClicks + 1)

\* navigator.serviceWorker.ready resolves (part_000), or
\* navigator.serviceWorker.register settles (part_001)
WorkerSettles(i) ==
    /\ pc[i] = "await_ready"
    /\ UNCHANGED << page, loaded, appInit, permState, nClicks, retry, perm,
                    tok, nGetToken, nSet, wrotePreview, previewText, db >>
    /\ UNCHANGED << swVars, pvVars >>
    /\ \/ Suspend(i, "await_perm", InProgress("perm_request"))
       \/ /\ page.script = "part_001"
          /\ Catch(i, "register-error", "sw")

\* Notification.requestPermission() settles
PermSettles(i) ==
    /\ pc[i] = "await_perm"
    /\ UNCHANGED << page, loaded, appInit, nClicks, retry, tok, nSet,
                    wrotePreview, previewText, db >>
    /\ UNCHANGED << swVars, pvVars >>
    /\ \/ /\ Catch(i, "permission-error", "perm")
          /\ UNCHANGED << permState, perm, nGetToken >>
       \/ \E p \in Permissions :
            /\ permState \in {"default", p}
            /\ permState' = p
            /\ perm' = [perm EXCEPT ![i] = p]
            /\ IF PermGranted(p)
               THEN /\ Suspend(i, "await_token", InProgress("token_issue"))
                    /\ nGetToken' = [nGetToken EXCEPT ![i] = @ + 1]
               ELSE /\ Return(i, DeniedStatus, "denied", "none")
                    /\ UNCHANGED nGetToken

\* messaging.getToken settles
TokenSettles(i) ==
    /\ pc[i] = "await_token"
    /\ UNCHANGED << page, loaded, appInit, permState, nClicks, retry, perm,
                    nGetToken, db >>
    /\ UNCHANGED << swVars, pvVars >>
    /\ \/ /\ Catch(i, "token-error", "token")
          /\ UNCHANGED << tok, nSet, wrotePreview, previewText >>
       \/ \E r \in TokenResults :
            /\ tok' = [tok EXCEPT ![i] = r]
            /\ IF Falsy(r)
               THEN /\ IF page.script = "part_000"
                       THEN Catch(i, "token is empty", "token")
                       ELSE Return(i, TokenFailedStatus, "failed", "token")
                    /\ UNCHANGED << nSet, wrotePreview, previewText >>
               ELSE
                 /\ nSet' = [nSet EXCEPT ![i] = @ + 1]
                 /\ Suspend(i, "await_set", InProgress("saving"))
                 /\ IF page.script = "part_000"
                    THEN /\ previewText' = setTokenPreview(r.str)
                         /\ wrotePreview' =
                              [wrotePreview EXCEPT ![i] = page.hasPreview]
                    ELSE UNCHANGED << wrotePreview, previewText >>

\* doc(token).set(..., {merge: true}) settles
SetSettles(i) ==
    /\ pc[i] = "await_set"
    /\ UNCHANGED << page, loaded, appInit, permState, nClicks, retry, perm,
                    tok, nGetToken, nSet >>
    /\ UNCHANGED << swVars, pvVars >>
    /\ \/ /\ Catch(i, "write-error", "write")
          /\ UNCHANGED << wrotePreview, previewText, db >>
       \/ \E now \in Times :
            /\ db' = MergeSet(db, DocId(tok[i].str), tok[i].str, now)
            /\ Return(i, CompletedStatus, "completed", "none")
            /\ IF page.script = "part_001"
               THEN /\ previewText' = writePreview(tok[i].str)
                    /\ wrotePreview' =
                         [wrotePreview EXCEPT ![i] = page.hasPreview]
               ELSE UNCHANGED << wrotePreview, previewText >>

PageNext ==
    \/ LoadScript
    \/ Click
    \/ \E i \in Invs : WorkerSettles(i)
    \/ \E i \in Invs : PermSettles(i)
    \/ \E i \in Invs : TokenSettles(i)
    \/ \E i \in Invs : SetSettles(i)

\* --------------------------------------------------------- service worker
Clients == 1..MaxClients
FetchIds == 1..MaxFetch
Urls == {"/", "/rates"}
Bodies == {"fresh", "stale"}

NoResponse == [ok |-> FALSE, url |-> "", body |-> "", call |-> 0]
NoFetch ==
    [st |-> "idle", req |-> "", call |-> 0, callReq |-> "",
     net |-> NoResponse, resp |-> NoResponse]

SwInit ==
    /\ swState = "parsed"
    /\ skipWaitingFlag = FALSE
    /\ claim = "none"
    /\ oldWorker \in {"none", "active"}
    /\ controller \in [Clients -> {"closed", "none", "old"}]
    /\ \A c \in Clients : controller[c] = "old" => oldWorker = "active"
    /\ fetchEv = [k \in FetchIds |-> NoFetch]
    /\ netCalls = 0

\* an install listener that does not call skipWaiting
onInstallNoSkip == UNCHANGED skipWaitingFlag

\* install listener: self.skipWaiting()
onInstall == skipWaitingFlag' = TRUE

\* activate listener: event.waitUntil(self.clients.claim())
onActivate == claim' = "pending"

\* fetch("/") whatever the request
fetchRequestRoot(req) == "/"

\* the request the fetch listener hands to fetch(): event.request
fetchRequest(req) == req

\* event.respondWith(promise): the page gets what the promise settles to
respondWith(result) == result

\* the browser runs the worker script and fires install
InstallEvent ==
    /\ swState = "parsed"
    /\ swState' = "installing"
    /\ onInstall
    /\ UNCHANGED << claim, oldWorker, controller, fetchEv, netCalls >>
    /\ UNCHANGED << pageVars, pvVars >>

\* the install event has been handled: the worker is installed (waiting)
Installed ==
    /\ swState = "installing"
    /\ swState' = "installed"
    /\ UNCHANGED << skipWaitingFlag, claim, oldWorker, controller, fetchEv,
                    netCalls >>
    /\ UNCHANGED << pageVars, pvVars >>

\* the browser activates the waiting worker: at once when its skip-waiting
\* flag is set, otherwise only when no page is controlled by the old worker.
\* Pages of the old worker pass to this one, and activate is fired.
Activate ==
    /\ swState = "installed"
    /\ skipWaitingFlag \/ \A c \in Clients : controller[c] # "old"
    /\ swState' = "activating"
    /\ oldWorker' = IF oldWorker = "active" THEN "redundant" ELSE oldWorker
    /\ controller' =
         [c \in Clients |->
            IF controller[c] = "old" THEN "this" ELSE controller[c]]
    /\ onActivate
    /\ UNCHANGED << skipWaitingFlag, fetchEv, netCalls >>
    /\ UNCHANGED << pageVars, pvVars >>

\* clients.claim() settles: every open page in scope is controlled
ClaimSettles ==
    /\ claim = "pending"
    /\ claim' = "done"
    /\ controller' =
         [c \in Clients |->
            IF controller[c] = "closed" THEN "closed" ELSE "this"]
    /\ UNCHANGED << swState, skipWaitingFlag, oldWorker, fetchEv, netCalls >>
    /\ UNCHANGED << pageVars, pvVars >>

\* the activate event, extended by waitUntil, has been handled
Activated ==
    /\ swState = "activating"
    /\ claim # "pending"
    /\ swState' = "activated"
    /\ UNCHANGED << skipWaitingFlag, claim, oldWorker, controller, fetchEv,
                    netCalls >>
    /\ UNCHANGED << pageVars, pvVars >>

\* a newer version of the worker takes over
Supersede ==
    /\ swState = "activated"
    /\ swState' = "redundant"
    /\ UNCHANGED << skipWaitingFlag, claim, oldWorker, controller, fetchEv,
                    netCalls >>
    /\ UNCHANGED << pageVars, pvVars >>

\* a page in scope is opened: the registration's active worker controls it
OpenClient(c) ==
    /\ controller[c] = "closed"
    /\ controller' =
         [controller EXCEPT ![c] =
            IF swState \in {"activating", "activated"} THEN "this"
            ELSE IF oldWorker = "active" THEN "old" ELSE "none"]
    /\ UNCHANGED << swState, skipWaitingFlag, claim, oldWorker, fetchEv,
                    netCalls >>
    /\ UNCHANGED << pageVars, pvVars >>

CloseClient(c) ==
    /\ controller[c] # "closed"
    /\ controller' = [controller EXCEPT ![c] = "closed"]
    /\ UNCHANGED << swState, skipWaitingFlag, claim, oldWorker, fetchEv,
                    netCalls >>
    /\ UNCHANGED << pageVars, pvVars >>

\* fetch listener: a controlled page requests url; the listener calls
\* fetch(event.request) and hands the promise to respondWith
FetchEvent(k, url) ==
    /\ swState = "activated"
    /\ \E c \in Clients : controller[c] = "this"
    /\ fetchEv[k].st = "idle"
    /\ netCalls' = netCalls + 1
    /\ fetchEv' =
         [fetchEv EXCEPT ![k] =
            [@ EXCEPT !.st = "fetching", !.req = url,
                      !.call = netCalls + 1, !.callReq = fetchRequest(url)]]
    /\ UNCHANGED << swState, skipWaitingFlag, claim, oldWorker, controller >>
    /\ UNCHANGED << pageVars, pvVars >>

\* the network call of event k settles, with a response for the requested
\* url or a network error; respondWith passes it to the page
NetSettles(k) ==
    /\ fetchEv[k].st = "fetching"
    /\ \E ok \in BOOLEAN, b \in Bodies :
         LET result ==
               IF ok
               THEN [ok |-> TRUE, url |-> fetchEv[k].callReq, body |-> b,
                     call |-> fetchEv[k].call]
               ELSE [ok |-> FALSE, url |-> fetchEv[k].callReq, body |-> "",
                     call |-> fetchEv[k].call]
         IN  fetchEv' =
               [fetchEv EXCEPT ![k] =
                  [@ EXCEPT !.st = "responded", !.net = result,
                            !.resp = respondWith(result)]]
    /\ UNCHANGED << swState, skipWaitingFlag, claim, oldWorker, controller,
                    netCalls >>
    /\ UNCHANGED << pageVars, pvVars >>

SwNext ==
    \/ InstallEvent
    \/ Installed
    \/ Activate
    \/ ClaimSettles
    \/ Activated
    \/ Supersede
    \/ \E c \in Clients : OpenClient(c)
    \/ \E c \in Clients : CloseClient(c)
    \/ \E k \in FetchIds, url \in Urls : FetchEvent(k, url)
    \/ \E k \in FetchIds : NetSettles(k)

\* -------------------------------------------------------- token preview
\* tokens of every length up to MaxTokenLen, from two starting letters
PvTokens == {MkToken(a, n) : a \in {1, 10, 20}, n \in 1..MaxTokenLen}

PvInit ==
    /\ pvToken \in PvTokens \cup {NoToken}
    /\ pvText = Dash
    /\ pvBy = "none"

\* part_000 renders through setTokenPreview
RenderSetTokenPreview ==
    /\ pvBy = "none"
    /\ pvText' = TokenPreviewOf(pvToken)
    /\ pvBy' = "setTokenPreview"
    /\ UNCHANGED pvToken
    /\ UNCHANGED << pageVars, swVars >>

\* part_001 renders inline, after its !token return
RenderInline ==
    /\ pvBy = "none"
    /\ pvToken # NoToken
    /\ pvText' = PreviewText(pvToken)
    /\ pvBy' = "inline"
    /\ UNCHANGED pvToken
    /\ UNCHANGED << pageVars, swVars >>

PvNext == RenderSetTokenPreview \/ RenderInline

\* ---------------------------------------------------------- specifications
PageFixed ==
    /\ PageInit
    /\ page = [script |-> "part_000", sdk |-> "strict", services |-> TRUE,
               sw |-> TRUE,
               hasStatus |-> TRUE, hasPreview |-> TRUE]
    /\ permState = "default"
    /\ db = [t \in DocIds |-> NoDoc]

SwFixed ==
    /\ SwInit
    /\ oldWorker = "none"
    /\ controller = [c \in Clients |-> "closed"]

PvFixed ==
    /\ PvInit
    /\ pvToken = NoToken

\* the registration workflow of the page script
Init == PageInit /\ SwFixed /\ PvFixed
SwSpecInit == PageFixed /\ SwInit /\ PvFixed
PvSpecInit == PageFixed /\ SwFixed /\ PvInit
Next == PageNext
Spec == Init /\ [][Next]_vars

\* an awaited external call settles
Settle ==
    \E i \in Invs :
        WorkerSettles(i) \/ PermSettles(i) \/ TokenSettles(i) \/ SetSettles(i)

\* The workflow with its awaited calls settling: while some awaited call is
\* pending, one eventually settles.  The store starts empty and the preview
\* element is present: neither takes part in the control flow.
FairInit ==
    /\ Init
    /\ page.hasPreview
    /\ db = [t \in DocIds |-> NoDoc]

FairSpec == FairInit /\ [][Next]_vars /\ WF_vars(Settle)

\* the service worker
SwSpec == SwSpecInit /\ [][SwNext]_vars

\* the browser runs every lifecycle step that is due
SwFairSpec ==
    /\ SwSpec
    /\ WF_vars(Installed)
    /\ WF_vars(Activate)
    /\ WF_vars(ClaimSettles)
    /\ WF_vars(Activated)

\* the preview rendering alone
PvSpec == PvSpecInit /\ [][PvNext]_vars

\* ------------------------------------------------------------------ claims
FailureKinds == {"error", "token_failed"}

\* C1: an invocation whose permission request resolved to "denied" or
\* "default" has ended with the permission-denied status, and has called
\* neither messaging.getToken nor set().
C1_DeniedStopsBeforeToken ==
    \A i \in Invs :
        perm[i] \in {"denied", "default"} =>
            /\ pc[i] = "done"
            /\ outcome[i] = "denied"
            /\ last[i] = DeniedStatus
            /\ nGetToken[i] = 0
            /\ nSet[i] = 0

C1_Witness ==
    \E i \in Invs : perm[i] = "default" /\ pc[i] = "done" /\ page.hasStatus
        /\ statusText = DeniedStatus

\* C2: an invocation whose getToken resolved to "" or to no token has ended
\* with a failure status (ok = false) and has never called set().
C2_EmptyTokenNoWrite ==
    \A i \in Invs :
        (tok[i].got /\ (tok[i].absent \/ tok[i].str = NoToken)) =>
            /\ pc[i] = "done"
            /\ outcome[i] = "failed"
            /\ last[i].kind \in FailureKinds
            /\ last[i].ok = FALSE
            /\ nSet[i] = 0

C2_Witness ==
    \E i \in Invs :
        /\ tok[i].got /\ ~tok[i].absent /\ tok[i].str = NoToken
        /\ pc[i] = "done"
        /\ \A t \in DocIds : ~db[t].exists

\* C3: the promise of registerPush never rejects, and an invocation in which
\* a step failed has ended with a failure status message.
C3_FailuresCaught ==
    \A i \in Invs :
        /\ outcome[i] # "rejected"
        /\ pc[i] = "done" => outcome[i] \in {"completed", "denied", "failed"}
        /\ failedAt[i] # "none" =>
              /\ pc[i] = "done"
              /\ outcome[i] = "failed"
              /\ last[i].kind \in FailureKinds
              /\ last[i].ok = FALSE

C3_Witness ==
    \E i \in Invs :
        /\ failedAt[i] = "write"
        /\ outcome[i] = "failed"
        /\ statusText = ErrorStatus("write-error")

\* C4: a retry (an invocation started after every earlier one had ended)
\* runs the same steps as a first invocation: with the SDK, its services and
\* the service worker available it gets past initialization, and it ends in
\* completed unless the worker, the permission request, the token or the
\* write refuses.
C4_RetryIdempotent ==
    \A i \in Invs :
        (retry[i] /\ pc[i] = "done" /\ outcome[i] # "completed") =>
            \/ page.sdk = "none"
            \/ ~page.services
            \/ ~page.sw
            \/ perm[i] \in {"denied", "default"}
            \/ failedAt[i] \in {"sw", "perm", "token", "write"}

\* C5: every record of the collection is stored under its own token, so no
\* two records hold the same token, and a write keeps the fields other than
\* token, ua and createdAt that the record already had.
C5_KeyedByToken ==
    /\ \A k \in DocIds : db[k].exists => db[k].token = k
    /\ \A k, l \in DocIds :
          (db[k].exists /\ db[l].exists /\ db[k].token = db[l].token) => k = l

C5_MergeKeepsFields ==
    \A k \in DocIds :
        db[k].exists => db'[k].exists /\ db'[k].extra = db[k].extra

C5_Upsert == []C5_KeyedByToken /\ [][C5_MergeKeepsFields]_vars

C5_Witness ==
    \E i, j \in Invs :
        /\ i # j
        /\ outcome[i] = "completed" /\ outcome[j] = "completed"
        /\ tok[i].str = tok[j].str
        /\ db[tok[i].str].extra = "srv"
        /\ db[tok[i].str].ua = UserAgent
        /\ \E t \in Tokens : t # tok[i].str /\ ~db[t].exists

\* C6: for a non-empty token the preview text is the token's first 12
\* characters (all of them when it has fewer), then "...", then its last 8
\* characters (all of them when it has fewer); the 24-letter example renders
\* as "abcdefghijkl...qrstuvwx".
ExampleToken ==
    << "a", "b", "c", "d", "e", "f", "g", "h", "i", "j", "k", "l", "m",
       "n", "o", "p", "q", "r", "s", "t", "u", "v", "w", "x" >>

ExamplePreview ==
    << "a", "b", "c", "d", "e", "f", "g", "h", "i", "j", "k", "l",
       ".", ".", ".", "q", "r", "s", "t", "u", "v", "w", "x" >>

C6_PreviewShape ==
    (pvBy # "none" /\ pvToken # NoToken) =>
        LET n == Len(pvToken)
            h == IF n < 12 THEN n ELSE 12
            t == IF n < 8 THEN n ELSE 8
        IN  /\ Len(pvText) = h + 3 + t
            /\ \A j \in 1..h : pvText[j] = pvToken[j]
            /\ \A j \in 1..3 : pvText[h + j] = "."
            /\ \A j \in 1..t : pvText[h + 3 + j] = pvToken[n - t + j]
            /\ pvToken = ExampleToken => pvText = ExamplePreview

C6_Witness ==
    pvBy = "inline" /\ pvToken = ExampleToken /\ pvText = ExamplePreview

\* C7: the response a fetch event gets is the result of the network call the
\* listener made for that event's own request; events in flight together
\* have separate calls.
C7_PassThrough ==
    /\ \A k \in FetchIds :
          /\ fetchEv[k].st # "idle" => fetchEv[k].callReq = fetchEv[k].req
          /\ fetchEv[k].st = "responded" =>
                /\ fetchEv[k].resp = fetchEv[k].net
                /\ fetchEv[k].resp.call = fetchEv[k].call
                /\ fetchEv[k].resp.url = fetchEv[k].req
    /\ \A k, l \in FetchIds :
          (k # l /\ fetchEv[k].st # "idle" /\ fetchEv[l].st # "idle") =>
              fetchEv[k].call # fetchEv[l].call

C7_Witness ==
    \E k, l \in FetchIds :
        /\ fetchEv[k].st = "responded" /\ fetchEv[k].resp.ok
        /\ fetchEv[l].st = "fetching"
        /\ fetchEv[l].call < fetchEv[k].call
        /\ fetchEv[l].req # fetchEv[k].req

\* C8: the worker goes installing -> installed -> activating -> activated;
\* once installed its activation is never held back by open pages of the old
\* worker; when activated every open page is controlled by it; activated is
\* left only for redundant; and after install it does become activated.
SwOrder ==
    { << "parsed", "installing" >>, << "installing", "installed" >>,
      << "installed", "activating" >>, << "activating", "activated" >>,
      << "activated", "redundant" >> }

C8_NoWaiting == swState = "installed" => ENABLED Activate

C8_ClaimsAll ==
    swState = "activated" =>
        \A c \in Clients : controller[c] \in {"closed", "this"}

C8_Steps == swState' # swState => << swState, swState' >> \in SwOrder

C8_Lifecycle ==
    /\ []C8_NoWaiting
    /\ []C8_ClaimsAll
    /\ [][C8_Steps]_vars
    /\ (swState = "installing") ~> (swState = "activated")

C8_Witness ==
    /\ swState = "activated"
    /\ oldWorker = "redundant"
    /\ \A c \in Clients : controller[c] = "this"

\* C9: an invocation that has ended without completing has not written the
\* token-preview element.
C9_PreviewOnlyOnSuccess ==
    \A i \in Invs :
        (pc[i] = "done" /\ outcome[i] # "completed") => ~wrotePreview[i]

\* C10: every started invocation ends; the last status of an ended one is
\* terminal; getToken and set() are each called at most once per invocation;
\* and when every started invocation has ended the status element shows a
\* terminal message.
C10_Safety ==
    /\ \A i \in Invs :
          /\ nGetToken[i] <= 1
          /\ nSet[i] <= 1
          /\ pc[i] = "done" =>
                /\ last[i].kind \in TerminalKinds
                /\ outcome[i] = "completed" <=> last[i].kind = "completed"
                /\ outcome[i] = "denied" <=> last[i].kind = "denied"
    /\ (/\ \A i \in Invs : pc[i] \in {"idle", "done"}
        /\ \E i \in Invs : pc[i] = "done"
        /\ page.hasStatus) => statusText.kind \in TerminalKinds

C10_Terminates ==
    /\ []C10_Safety
    /\ \A i \in Invs : (pc[i] # "idle") ~> (pc[i] = "done")

C10_Witness ==
    /\ pc[1] = "done" /\ pc[2] = "done"
    /\ ~retry[2]
    /\ nSet[1] = 1 /\ nSet[2] = 1
    /\ outcome[2] = "completed"
    /\ outcome[1] = "failed"
    /\ statusText = last[1]

====
